---- MODULE Spec2Model ----
(***************************************************************************)
(* A model of samsam's matcher engine (create-matcher): the matcher        *)
(* factory, its type dispatch table, matchObject, the property matchers,   *)
(* the quantified matchers, the array/map/set families and the or/and      *)
(* combinators.                                                            *)
(*                                                                         *)
(* JavaScript values are tagged records; the tag t is what typeOf returns  *)
(* (a matcher object classifies as "object").  A matcher is a record with  *)
(* t = "matcher" (the prototype marker isMatcher looks for) and a kind     *)
(* naming the closure installed as its test, with the values the closure   *)
(* captured.  The outcome of a call is a value or Throw.                   *)
(*                                                                         *)
(* message strings are not modelled beyond the calls that can throw while  *)
(* they are built.                                                         *)
(***************************************************************************)
EXTENDS Integers, Sequences, FiniteSets, TLC

\* op: the last call made; args: the arguments of the last builder call;
\* matcher: the matcher the caller holds; actual, result, calls: the argument
\* and outcome of the last test and the operand tests or/and invoked during
\* it; lastIndex: the lastIndex of the RegExp object the matcher captured
VARIABLES op, args, matcher, actual, result, calls, lastIndex

vars == <<op, args, matcher, actual, result, calls, lastIndex>>

(***************************************************************************)
(* Bounds of the model.                                                    *)
(***************************************************************************)
\* the longest array and string
MaxLen == 2

\* the deepest nesting of or/and
MaxDepth == 2

(***************************************************************************)
(* Values.                                                                 *)
(***************************************************************************)
Undefined == [t |-> "undefined"]

Null == [t |-> "null"]

Bool(b) == [t |-> "boolean", b |-> b]

Num(n) == [t |-> "number", n |-> n]

NaN == [t |-> "number", nan |-> TRUE]

Str(s) == [t |-> "string", s |-> s]

Arr(es) == [t |-> "array", es |-> es]

\* own: the object's own enumerable properties, proto: those it inherits
Obj(own, proto) == [t |-> "object", own |-> own, proto |-> proto]

MapV(f) == [t |-> "map", f |-> f]

SetV(S) == [t |-> "set", S |-> S]

\* a global (/g) regular expression keeps lastIndex between calls of test
RegExpV(source, global) == [t |-> "regexp", source |-> source, global |-> global]

\* the outcome of a call that raised a TypeError
Throw == [t |-> "throw"]

\* no matcher was returned
NoMatcher == [t |-> "none"]

NoProps == [k \in {} |-> Undefined]

\* Object.keys lists the own keys in insertion order; the model inserts in this order
KeyOrder == <<"x", "y", "length">>

(***************************************************************************)
(* Classification and the language's primitives.                           *)
(***************************************************************************)
isMatcher(object) == object.t = "matcher"

typeOf(value) == IF value.t = "matcher" THEN "object" ELSE value.t

IsNaN(v) == v = NaN

IsNullish(v) == v = Null \/ v = Undefined

\* Boolean(v); a thrown error is no value and counts as not truthy where the
\* caller asks
Truthy(v) ==
    CASE v.t = "throw" -> FALSE
      [] v.t = "undefined" -> FALSE
      [] v.t = "null" -> FALSE
      [] v.t = "boolean" -> v.b
      [] v.t = "number" -> ~IsNaN(v) /\ v.n # 0
      [] v.t = "string" -> v.s # <<>>
      [] OTHER -> TRUE

\* a === b.  Objects are equal only to themselves; the model gives no two
\* distinct objects the same contents where === is applied to them, so
\* equality of contents stands for identity.
StrictEq(a, b) == a = b /\ ~IsNaN(a)

\* zero-based element read: out of range (negative too) reads undefined
At(es, i) == IF i \in 0..(Len(es) - 1) THEN es[i + 1] ELSE Undefined

\* the keys of an object in Object.keys order
RECURSIVE KeysFrom(_, _)
KeysFrom(own, i) ==
    IF i > Len(KeyOrder) THEN <<>>
    ELSE IF KeyOrder[i] \in DOMAIN own
         THEN <<KeyOrder[i]>> \o KeysFrom(own, i + 1)
         ELSE KeysFrom(own, i + 1)

ObjectKeys(o) == KeysFrom(o.own, 1)

\* property in object
HasIn(o, key) ==
    CASE o.t = "object" -> key \in DOMAIN o.own \/ key \in DOMAIN o.proto
      [] o.t = "array" -> key = "length"
      [] OTHER -> FALSE

\* Object.prototype.hasOwnProperty
hasOwnProperty(o, key) ==
    CASE o.t = "object" -> key \in DOMAIN o.own
      [] o.t \in {"array", "string"} -> key = "length"
      [] OTHER -> FALSE

\* value[key] for a value that is not null or undefined
GetProp(o, key) ==
    CASE o.t = "object" ->
            IF key \in DOMAIN o.own THEN o.own[key]
            ELSE IF key \in DOMAIN o.proto THEN o.proto[key]
            ELSE Undefined
      [] o.t = "array" -> IF key = "length" THEN Num(Len(o.es)) ELSE Undefined
      [] o.t = "string" -> IF key = "length" THEN Num(Len(o.s)) ELSE Undefined
      [] OTHER -> Undefined

\* value.length
Length(v) == GetProp(v, "length")

\* value.size
Size(v) == CASE v.t = "map" -> Num(Cardinality(DOMAIN v.f))
             [] v.t = "set" -> Num(Cardinality(v.S))
             [] OTHER -> Undefined

\* value[index] for an index that is itself a value
Index(v, index) ==
    CASE index.t = "number" /\ ~IsNaN(index) /\ v.t = "array" -> At(v.es, index.n)
      [] index.t = "number" /\ ~IsNaN(index) /\ v.t = "string" ->
            IF index.n \in 0..(Len(v.s) - 1) THEN Str(<<v.s[index.n + 1]>>) ELSE Undefined
      [] index.t = "string" /\ Len(index.s) = 1 -> GetProp(v, index.s[1])
      [] OTHER -> Undefined

\* the typeof operator
JsTypeof(v) ==
    CASE v.t \in {"undefined", "boolean", "number", "string", "function"} -> v.t
      [] OTHER -> "object"

\* a - b and a + b on numbers; anything that is not a number gives NaN (or a
\* string that names no element)
Minus(a, b) ==
    IF a.t = "number" /\ b.t = "number" /\ ~IsNaN(a) /\ ~IsNaN(b)
    THEN Num(a.n - b.n) ELSE NaN

Plus(a, b) ==
    IF a.t = "number" /\ b.t = "number" /\ ~IsNaN(a) /\ ~IsNaN(b)
    THEN Num(a.n + b.n) ELSE NaN

\* Object.keys(o) as an array of strings
KeysArr(o) == Arr([i \in 1..Len(ObjectKeys(o)) |-> Str(<<ObjectKeys(o)[i]>>)])

\* ToNumber of a string: empty is 0, decimal digits are their value, the rest NaN
RECURSIVE Decimal(_)
Decimal(s) == IF s = <<>> THEN 0 ELSE 10 * Decimal(SubSeq(s, 1, Len(s) - 1)) + 1

StrToNum(s) == IF \A i \in 1..Len(s) : s[i] = "1" THEN Num(Decimal(s)) ELSE NaN

\* ToNumber(ToPrimitive(v)): an array is its elements joined by ",", where
\* null and undefined join as "", and any other object has a non-numeric string
RECURSIVE ToNumber(_)
ToNumber(v) ==
    CASE v.t = "number" -> v
      [] v.t = "string" -> StrToNum(v.s)
      [] v.t = "boolean" -> IF v.b THEN Num(1) ELSE Num(0)
      [] v.t = "null" -> Num(0)
      [] v.t = "array" ->
            IF Len(v.es) = 0 THEN Num(0)
            ELSE IF Len(v.es) > 1 THEN NaN
            ELSE IF IsNullish(v.es[1]) THEN Num(0)
            ELSE IF v.es[1].t = "boolean" THEN NaN
            ELSE ToNumber(v.es[1])
      [] OTHER -> NaN

\* expectation == actual for a number expectation
LooseEqNumber(expectation, a) ==
    IF IsNullish(a) THEN FALSE ELSE StrictEq(expectation, ToNumber(a))

\* String.prototype.indexOf(actual, expectation) !== -1
Contains(s, sub) ==
    \E i \in 0..(Len(s) - Len(sub)) : SubSeq(s, i + 1, i + Len(sub)) = sub

\* RegExp.prototype.test for a literal pattern: a global expression starts at
\* lastIndex and stores where the match ended (0 when there is none); the
\* result is <<matched, lastIndex afterwards>>
RegExpTest(re, li, s) ==
    LET from == IF re.global THEN li ELSE 0
        hits == {i \in from..(Len(s) - Len(re.source)) :
                    SubSeq(s, i + 1, i + Len(re.source)) = re.source}
        first == CHOOSE i \in hits : \A j \in hits : i <= j
    IN  IF hits = {} THEN <<FALSE, IF re.global THEN 0 ELSE li>>
        ELSE <<TRUE, IF re.global THEN first + Len(re.source) ELSE li>>

(***************************************************************************)
(* Collaborators.                                                          *)
(***************************************************************************)
\* deep-equal: recursive structural equality (NaN equals itself)
deepEqual(a, b) == a = b

\* the values that have a forEach method
HasForEach(v) == v.t \in {"array", "map", "set"}

\* iterable-to-string walks its argument with forEach to format it: the call
\* is a TypeError on a value that has no such method
iterableToString(v) == IF HasForEach(v) THEN "string" ELSE "throw"

\* what forEach hands to its callback: (element, index) for an array,
\* (value, key) for a map, (value, value) for a set
ForEachEntries(obj) ==
    CASE obj.t = "array" ->
            {[element |-> obj.es[i], index |-> Num(i - 1)] : i \in 1..Len(obj.es)}
      [] obj.t = "map" ->
            {[element |-> obj.f[k], index |-> k] : k \in DOMAIN obj.f}
      [] obj.t = "set" ->
            {[element |-> e, index |-> e] : e \in obj.S}
      [] OTHER -> {}

\* @sinonjs/commons every: obj.forEach with a callback that throws to stop at
\* the first falsy answer, inside a try whose catch turns any error (the
\* callback's own, or a missing forEach) into false
every(obj, fn) ==
    HasForEach(obj) /\ \A e \in ForEachEntries(obj) : Truthy(fn[e])

isIterable(value) == Truthy(value) /\ HasForEach(value)

\* Array.prototype.every, given the callback's outcome for each element in
\* order: stops at the first falsy one, and an error propagates
RECURSIVE arrayEvery(_)
arrayEvery(outcomes) ==
    IF outcomes = <<>> THEN Bool(TRUE)
    ELSE IF Head(outcomes) = Throw THEN Throw
    ELSE IF ~Truthy(Head(outcomes)) THEN Bool(FALSE)
    ELSE arrayEvery(Tail(outcomes))

(***************************************************************************)
(* Matchers.  A matcher holds the kind of test its builder installed and   *)
(* the expectation the test closes over; or/and hold their two operands.   *)
(* A function is its name and the variables it closes over.                *)
(***************************************************************************)
NoCapture == [none |-> TRUE]

Closure(name, captured) == [t |-> "function", name |-> name, c |-> captured]

Matcher(kind, expectation) ==
    [t |-> "matcher", kind |-> kind, expectation |-> expectation]

\* a message string, as every namespace builder passes one
SomeMessage == Str(<<"a">>)

\* the TYPE_MAP entry (or the deepEqual fallback) that createMatcher installs
TYPE_MAP(type, expectation) ==
    CASE type = "function" -> Matcher("function", expectation)
      [] type = "number" -> Matcher("number", expectation)
      [] type = "object" ->
            IF isMatcher(expectation)
            THEN Matcher("adapter", expectation)
            ELSE Matcher("object", expectation)
      [] type = "regexp" -> Matcher("regexp", expectation)
      [] type = "string" -> Matcher("string", expectation)
      [] OTHER -> Matcher("deepEqual", expectation)

\* a createMatcher that does not count its arguments
createMatcherAnyArity(expectation, message, nargs) ==
    IF message # Undefined /\ message.t # "string" THEN Throw
    ELSE TYPE_MAP(typeOf(expectation), expectation)

\* createMatcher called with nargs arguments (message is Undefined when omitted)
createMatcher(expectation, message, nargs) ==
    IF message # Undefined /\ message.t # "string" THEN Throw
    ELSE IF nargs > 2 THEN Throw
    ELSE TYPE_MAP(typeOf(expectation), expectation)

\* isMatcher(valueOrMatcher) ? valueOrMatcher : createMatcher(valueOrMatcher)
Coerce(valueOrMatcher) ==
    IF isMatcher(valueOrMatcher) THEN valueOrMatcher
    ELSE createMatcher(valueOrMatcher, Undefined, 1)

\* m1.or(valueOrMatcher), called with nargs arguments
matcher_or(m1, valueOrMatcher, nargs) ==
    IF nargs = 0 THEN Throw
    ELSE [t |-> "matcher", kind |-> "or", m1 |-> m1, m2 |-> Coerce(valueOrMatcher)]

matcher_and(m1, valueOrMatcher, nargs) ==
    IF nargs = 0 THEN Throw
    ELSE [t |-> "matcher", kind |-> "and", m1 |-> m1, m2 |-> Coerce(valueOrMatcher)]

createMatcher_any == createMatcher(Closure("any", NoCapture), SomeMessage, 2)

createMatcher_defined == createMatcher(Closure("defined", NoCapture), SomeMessage, 2)

createMatcher_truthy == createMatcher(Closure("truthy", NoCapture), SomeMessage, 2)

createMatcher_falsy == createMatcher(Closure("falsy", NoCapture), SomeMessage, 2)

createMatcher_same(expectation) ==
    createMatcher(Closure("same", [expectation |-> expectation]), SomeMessage, 2)

createMatcher_in(arrayOfExpectations) ==
    IF typeOf(arrayOfExpectations) # "array" THEN Throw
    ELSE createMatcher(Closure("in", [arrayOfExpectations |-> arrayOfExpectations]),
                       SomeMessage, 2)

\* assertType(value, type, name) throws unless typeOf(value) is type
assertType(value, type) == typeOf(value) = type

createMatcher_typeOf(type) ==
    IF ~assertType(type, "string") THEN Throw
    ELSE createMatcher(Closure("typeOf", [type |-> type]), SomeMessage, 2)

\* the builder createPropertyMatcher returns, called with nargs arguments;
\* propertyTest is "has" or "hasOwn"
createPropertyMatcher(propertyTest, property, value, nargs) ==
    IF ~assertType(property, "string") THEN Throw
    ELSE createMatcher(
            Closure(propertyTest,
                    [property |-> property, onlyProperty |-> (nargs = 1),
                     value |-> value]),
            SomeMessage, 2)

createMatcher_has(property, value, nargs) ==
    createPropertyMatcher("has", property, value, nargs)

createMatcher_hasOwn(property, value, nargs) ==
    createPropertyMatcher("hasOwn", property, value, nargs)

\* assertMatcher(value) throws unless value is a matcher
assertMatcher(value) == isMatcher(value)

createMatcher_every(predicate) ==
    IF ~assertMatcher(predicate) THEN Throw
    ELSE createMatcher(Closure("every", [predicate |-> predicate]), SomeMessage, 2)

createMatcher_some(predicate) ==
    IF ~assertMatcher(predicate) THEN Throw
    ELSE createMatcher(Closure("some", [predicate |-> predicate]), SomeMessage, 2)

\* the array, map and set builders check nothing themselves; building the
\* message calls iterableToString(expectation)
FamilyBuilder(name, expectation) ==
    IF iterableToString(expectation) = "throw" THEN Throw
    ELSE createMatcher(Closure(name, [expectation |-> expectation]), SomeMessage, 2)

createMatcher_array_deepEquals(expectation) ==
    FamilyBuilder("array.deepEquals", expectation)

createMatcher_array_startsWith(expectation) ==
    FamilyBuilder("array.startsWith", expectation)

createMatcher_array_endsWith(expectation) ==
    FamilyBuilder("array.endsWith", expectation)

createMatcher_array_contains(expectation) ==
    FamilyBuilder("array.contains", expectation)

createMatcher_map_deepEquals(expectation) ==
    FamilyBuilder("map.deepEquals", expectation)

createMatcher_map_contains(expectation) ==
    FamilyBuilder("map.contains", expectation)

createMatcher_set_deepEquals(expectation) ==
    FamilyBuilder("set.deepEquals", expectation)

createMatcher_set_contains(expectation) ==
    FamilyBuilder("set.contains", expectation)

(***************************************************************************)
(* test.  Run(m, actual) is the outcome of m.test(actual) together with    *)
(* the operand matchers whose test or/and invoked, in order.               *)
(***************************************************************************)
RECURSIVE Run(_, _)
RECURSIVE Apply(_, _)
RECURSIVE matchObject(_, _)
RECURSIVE MatchKey(_, _, _)

Test(m, a) == Run(m, a).v

\* the callback matchObject hands to arrayEvery, for one key
MatchKey(a, expectation, key) ==
    LET exp == expectation.own[key]
        act == GetProp(a, key)
    IN  IF isMatcher(exp)
        THEN LET r == Test(exp, act)
             IN  IF r = Throw THEN Throw ELSE Bool(Truthy(r))
        ELSE IF typeOf(exp) = "object"
        THEN LET r == matchObject(act, exp)
             IN  IF r = Throw THEN Throw ELSE Bool(Truthy(r))
        ELSE Bool(deepEqual(act, exp))

MatchKeys(a, expectation, keys) ==
    [i \in 1..Len(keys) |-> MatchKey(a, expectation, keys[i])]

\* a matchObject that also wants every key of actual to be expected
matchObjectExact(a, expectation) ==
    IF a = Null \/ a = Undefined THEN Bool(FALSE)
    ELSE IF a.t = "object" /\ ~(DOMAIN a.own \subseteq DOMAIN expectation.own)
    THEN Bool(FALSE)
    ELSE arrayEvery(MatchKeys(a, expectation, ObjectKeys(expectation)))

matchObject(a, expectation) ==
    IF a = Null \/ a = Undefined THEN Bool(FALSE)
    ELSE arrayEvery(MatchKeys(a, expectation, ObjectKeys(expectation)))

\* a propertyTest that asks for a value on objects too
PropertyTestHasValue(a, property) == GetProp(a, property) # Undefined

\* the propertyTest of has
PropertyTestHas(a, property) ==
    IF JsTypeof(a) = "object"
    THEN HasIn(a, property)
    ELSE GetProp(a, property) # Undefined

\* the test createPropertyMatcher installs
PropertyMatcherTest(propertyTest, c, a) ==
    LET key == c.property.s[1]
        found == IF propertyTest = "has" THEN PropertyTestHas(a, key)
                 ELSE hasOwnProperty(a, key)
    IN  IF a = Undefined \/ a = Null \/ ~found THEN Bool(FALSE)
        ELSE Bool(c.onlyProperty \/ deepEqual(GetProp(a, key), c.value))

EveryTest(predicate, a) ==
    IF typeOf(a) = "object"
    THEN Bool(every(KeysArr(a), [e \in ForEachEntries(KeysArr(a)) |->
                   LET key == e.element
                       index == e.index
                   IN  Test(predicate, GetProp(a, key.s[1]))]))
    ELSE Bool(isIterable(a)
              /\ every(a, [e \in ForEachEntries(a) |->
                   LET element == e.element
                       index == e.index
                   IN  Test(predicate, element)]))

\* !predicate.test(value): an error in test leaves the callback as an error
NotTest(predicate, value) ==
    LET r == Test(predicate, value)
    IN  IF r = Throw THEN Throw ELSE Bool(~Truthy(r))

SomeTest(predicate, a) ==
    IF typeOf(a) = "object"
    THEN Bool(~every(KeysArr(a), [e \in ForEachEntries(KeysArr(a)) |->
                   LET key == e.element
                       index == e.index
                   IN  NotTest(predicate, GetProp(a, key.s[1]))]))
    ELSE Bool(isIterable(a)
              /\ ~every(a, [e \in ForEachEntries(a) |->
                   LET element == e.element
                       index == e.index
                   IN  NotTest(predicate, element)]))

ArrayDeepEqualsTest(expectation, a) ==
    IF IsNullish(a) \/ IsNullish(expectation) THEN Throw
    ELSE LET sameLength == StrictEq(Length(a), Length(expectation))
         IN  Bool(typeOf(a) = "array"
                  /\ sameLength
                  /\ every(a, [e \in ForEachEntries(a) |->
                   LET element == e.element
                       index == e.index
                   IN  LET expected == Index(expectation, index)
                        IN  IF typeOf(expected) = "array" /\ typeOf(element) = "array"
                            THEN Test(createMatcher_array_deepEquals(expected),
                                      element)
                            ELSE Bool(deepEqual(expected, element))]))

ArrayStartsWithTest(expectation, a) ==
    Bool(typeOf(a) = "array"
         /\ every(expectation, [e \in ForEachEntries(expectation) |->
                   LET expectedElement == e.element
                       index == e.index
                   IN  Bool(StrictEq(Index(a, index), expectedElement))]))

ArrayEndsWithTest(expectation, a) ==
    IF IsNullish(a) \/ IsNullish(expectation) THEN Throw
    ELSE LET offset == Minus(Length(a), Length(expectation))
         IN  Bool(typeOf(a) = "array"
                  /\ every(expectation, [e \in ForEachEntries(expectation) |->
                   LET expectedElement == e.element
                       index == e.index
                   IN  Bool(StrictEq(Index(a, Plus(offset, index)), expectedElement))]))

ArrayContainsTest(expectation, a) ==
    Bool(typeOf(a) = "array"
         /\ every(expectation, [e \in ForEachEntries(expectation) |->
                   LET expectedElement == e.element
                       index == e.index
                   IN  Bool(\E i \in 1..Len(a.es) : StrictEq(a.es[i], expectedElement))]))

\* the callback of map.deepEquals: expectation.has(key) && expectation.get(key) === element
MapEntryIn(m, element, key) ==
    CASE m.t = "map" -> Bool(key \in DOMAIN m.f /\ StrictEq(m.f[key], element))
      [] m.t = "set" -> IF key \in m.S THEN Throw ELSE Bool(FALSE)
      [] OTHER -> Throw

\* the callback of set.deepEquals: expectation.has(element)
SetHas(m, element) ==
    CASE m.t = "set" -> Bool(element \in m.S)
      [] m.t = "map" -> Bool(element \in DOMAIN m.f)
      [] OTHER -> Throw

\* a map.deepEquals that does not compare the sizes
MapDeepEqualsTestNoSize(expectation, a) ==
    IF IsNullish(a) \/ IsNullish(expectation) THEN Throw
    ELSE Bool(typeOf(a) = "map"
              /\ every(a, [e \in ForEachEntries(a) |->
                   LET element == e.element
                       key == e.index
                   IN  MapEntryIn(expectation, element, key)]))

MapDeepEqualsTest(expectation, a) ==
    IF IsNullish(a) \/ IsNullish(expectation) THEN Throw
    ELSE LET sameLength == StrictEq(Size(a), Size(expectation))
         IN  Bool(typeOf(a) = "map"
                  /\ sameLength
                  /\ every(a, [e \in ForEachEntries(a) |->
                   LET element == e.element
                       key == e.index
                   IN  MapEntryIn(expectation, element, key)]))

MapContainsTest(expectation, a) ==
    Bool(typeOf(a) = "map"
         /\ every(expectation, [e \in ForEachEntries(expectation) |->
                   LET element == e.element
                       key == e.index
                   IN  MapEntryIn(a, element, key)]))

SetDeepEqualsTest(expectation, a) ==
    IF IsNullish(a) \/ IsNullish(expectation) THEN Throw
    ELSE LET sameLength == StrictEq(Size(a), Size(expectation))
         IN  Bool(typeOf(a) = "set"
                  /\ sameLength
                  /\ every(a, [e \in ForEachEntries(a) |->
                   LET element == e.element
                       index == e.index
                   IN  SetHas(expectation, element)]))

SetContainsTest(expectation, a) ==
    Bool(typeOf(a) = "set"
         /\ every(expectation, [e \in ForEachEntries(expectation) |->
                   LET element == e.element
                       index == e.index
                   IN  SetHas(a, element)]))

\* calling a function: the closures the builders hand to createMatcher, and a
\* caller's own function, which returns nothing
Apply(fn, a) ==
    CASE fn.name = "any" -> Bool(TRUE)
      [] fn.name = "defined" -> Bool(a # Null /\ a # Undefined)
      [] fn.name = "truthy" -> Bool(Truthy(a))
      [] fn.name = "falsy" -> Bool(~Truthy(a))
      [] fn.name = "same" -> Bool(StrictEq(fn.c.expectation, a))
      [] fn.name = "in" ->
            Bool(\E i \in 1..Len(fn.c.arrayOfExpectations.es) :
                    StrictEq(fn.c.arrayOfExpectations.es[i], a))
      [] fn.name = "typeOf" ->
            Bool(fn.c.type.t = "string" /\ fn.c.type.s = <<typeOf(a)>>)
      [] fn.name \in {"has", "hasOwn"} -> PropertyMatcherTest(fn.name, fn.c, a)
      [] fn.name = "every" -> EveryTest(fn.c.predicate, a)
      [] fn.name = "some" -> SomeTest(fn.c.predicate, a)
      [] fn.name = "array.deepEquals" -> ArrayDeepEqualsTest(fn.c.expectation, a)
      [] fn.name = "array.startsWith" -> ArrayStartsWithTest(fn.c.expectation, a)
      [] fn.name = "array.endsWith" -> ArrayEndsWithTest(fn.c.expectation, a)
      [] fn.name = "array.contains" -> ArrayContainsTest(fn.c.expectation, a)
      [] fn.name = "map.deepEquals" -> MapDeepEqualsTest(fn.c.expectation, a)
      [] fn.name = "map.contains" -> MapContainsTest(fn.c.expectation, a)
      [] fn.name = "set.deepEquals" -> SetDeepEqualsTest(fn.c.expectation, a)
      [] fn.name = "set.contains" -> SetContainsTest(fn.c.expectation, a)
      [] fn.name = "identity" -> a
      [] OTHER -> Undefined

\* an or that tests both operands before it combines them
OrTestEager(m1, m2, a) ==
    LET l == Run(m1, a)
        r == Run(m2, a)
    IN  [v |-> IF l.v = Throw \/ r.v = Throw THEN Throw
               ELSE IF Truthy(l.v) THEN l.v ELSE r.v,
         calls |-> l.calls \o r.calls]

\* m1.test(actual) || m2.test(actual)
OrTest(m1, m2, a) ==
    LET l == Run(m1, a)
    IN  IF l.v = Throw \/ Truthy(l.v) THEN l
        ELSE LET r == Run(m2, a)
             IN  [v |-> r.v, calls |-> l.calls \o r.calls]

\* m1.test(actual) && m2.test(actual)
AndTest(m1, m2, a) ==
    LET l == Run(m1, a)
    IN  IF l.v = Throw \/ ~Truthy(l.v) THEN l
        ELSE LET r == Run(m2, a)
             IN  [v |-> r.v, calls |-> l.calls \o r.calls]

\* the test of a matcher that is not or/and; a regular expression reached
\* here has no g flag, so that its lastIndex stays 0
LeafTest(m, a) ==
    CASE m.kind = "function" -> Apply(m.expectation, a)
      [] m.kind = "number" -> Bool(LooseEqNumber(m.expectation, a))
      [] m.kind = "adapter" ->
            LET r == Test(m.expectation, a)
            IN  IF r = Throw THEN Throw ELSE Bool(r = Bool(TRUE))
      [] m.kind = "regexp" ->
            Bool(JsTypeof(a) = "string" /\ RegExpTest(m.expectation, 0, a.s)[1])
      [] m.kind = "object" -> matchObject(a, m.expectation)
      [] m.kind = "string" ->
            Bool(JsTypeof(a) = "string" /\ Contains(a.s, m.expectation.s))
      [] OTHER -> Bool(deepEqual(a, m.expectation))

Run(m, a) ==
    CASE m.kind = "or" -> OrTest(m.m1, m.m2, a)
      [] m.kind = "and" -> AndTest(m.m1, m.m2, a)
      [] OTHER -> [v |-> LeafTest(m, a), calls |-> <<m>>]

\* m.test(actual) with the captured RegExp's lastIndex at li: the outcome, the
\* operand tests invoked, and lastIndex afterwards
TestStep(m, a, li) ==
    IF m.kind = "regexp"
    THEN IF JsTypeof(a) = "string"
         THEN LET r == RegExpTest(m.expectation, li, a.s)
              IN  [v |-> Bool(r[1]), calls |-> <<m>>, li |-> r[2]]
         ELSE [v |-> Bool(FALSE), calls |-> <<m>>, li |-> li]
    ELSE LET r == Run(m, a)
         IN  [v |-> r.v, calls |-> r.calls, li |-> li]

(***************************************************************************)
(* The values the callers of the model pass.                               *)
(***************************************************************************)
SeqsUpTo(S, n) == UNION {[1..k -> S] : k \in 0..n}

Primitives ==
    {Undefined, Null, Bool(TRUE), Bool(FALSE), Num(0), Num(1), NaN,
     Str(<<>>), Str(<<"a">>), Str(<<"1">>)}

Elements == {Undefined, Num(1)}

Arrays == {Arr(es) : es \in SeqsUpTo(Elements, MaxLen)}

NestedArrays == {Arr(<<Num(1), Arr(<<Num(2)>>)>>), Arr(<<Num(1), Arr(<<>>)>>),
                 Arr(<<Null>>), Arr(<<Null, Num(1)>>)}

Strings == {Str(s) : s \in SeqsUpTo({"a", "1"}, MaxLen)}

PropsOver(keys, values) == UNION {[S -> values] : S \in SUBSET keys}

\* what an inherited x looks like
Protos == {NoProps, [k \in {"x"} |-> Num(1)]}

PlainValues == {Undefined, Num(1), Num(2)}

Objects == {Obj(own, proto) : own \in PropsOver({"x", "y"}, PlainValues), proto \in Protos}

InnerObjects == {Obj([k \in {"x"} |-> v], NoProps) : v \in {Num(1), Num(2)}}

\* actual values for an object expectation: properties may hold objects
ActualObjects ==
    {Obj(own, NoProps) : own \in PropsOver({"x", "y"}, {Undefined, Num(1)} \cup InnerObjects)}
    \cup {Obj(NoProps, [k \in {"x"} |-> Num(1)])}

MapKeys == {Num(1), Num(2)}

MapValues == {Undefined, Num(1), NaN}

Maps == {MapV(f) : f \in PropsOver(MapKeys, MapValues)}

Sets == {SetV(S) : S \in SUBSET {Num(1), Num(2), NaN}}

\* arguments that do not classify as an array
NonArrays ==
    {Undefined, Null, Num(1), Str(<<"a">>), Obj(NoProps, NoProps),
     SetV({Num(1)}), SetV({}), MapV(NoProps), Closure("plainFunction", NoCapture)}

TypeTags == {"undefined", "null", "boolean", "number", "string", "array", "object",
             "map", "set", "function"}

\* matchers to quantify with and to combine; one of them throws on null
Predicates ==
    {createMatcher_any, createMatcher_falsy, createMatcher_same(Num(1)),
     createMatcher_array_deepEquals(Arr(<<>>))}

\* a caller's function that returns its argument, so a test that answers with
\* a value that is no boolean
Identity == Closure("identity", NoCapture)

\* matchers to combine with or and and: one answers with a value that is no
\* boolean, one throws on null
Operands ==
    {createMatcher_falsy, createMatcher(Identity, Undefined, 1),
     createMatcher_array_deepEquals(Arr(<<>>))}

\* values of an object expectation's keys: plain values, matchers, objects
ExpectationValues ==
    {Undefined, Num(1), createMatcher_same(Num(1)),
     createMatcher_array_deepEquals(Arr(<<>>)),
     Obj([k \in {"x"} |-> Num(1)], NoProps)}

ObjectExpectations == {Obj(own, NoProps) : own \in PropsOver({"x", "y"}, ExpectationValues)}

RegExps == {RegExpV(<<"a">>, g) : g \in BOOLEAN}

\* what createMatcher is given as an expectation
Expectations ==
    {Undefined, Null, Bool(TRUE), Num(0), Num(1), NaN, Str(<<>>), Str(<<"a">>),
     Arr(<<>>), Arr(<<Num(1)>>), createMatcher_any, createMatcher_truthy, Identity}
    \cup RegExps

Messages == {Undefined, Null, Num(1), Bool(TRUE), Str(<<"a">>), Arr(<<>>)}

RECURSIVE Depth(_)
Depth(m) ==
    IF m.kind \in {"or", "and"}
    THEN 1 + (IF Depth(m.m1) > Depth(m.m2) THEN Depth(m.m1) ELSE Depth(m.m2))
    ELSE 0

RECURSIVE LeavesOf(_)
LeavesOf(m) ==
    IF m.kind \in {"or", "and"} THEN LeavesOf(m.m1) \cup LeavesOf(m.m2) ELSE {m}

\* the actual values a caller tests a matcher with
ActualsFor(m) ==
    CASE m.kind \in {"or", "and"} ->
            {Null, Num(0), Num(1), Arr(<<>>)}
      [] m.kind = "object" -> ActualObjects \cup {Undefined, Null, Str(<<"a">>)}
      [] m.kind \in {"regexp", "string"} -> Strings \cup {Undefined, Null, Num(1)}
      [] m.kind = "function" /\ m.expectation.name \in {"has", "hasOwn"} ->
            Objects \cup {Undefined, Null, Str(<<"a">>), Arr(<<>>), Num(1)}
      [] m.kind = "function" /\ m.expectation.name \in {"every", "some"} ->
            Arrays \cup NestedArrays \cup Sets
            \cup {Obj(own, NoProps) : own \in PropsOver({"x", "y"}, {Null, Num(1), Num(2)})}
            \cup {Undefined, Null, Num(1), Str(<<"a">>), MapV([k \in {Num(1)} |-> Num(1)])}
      [] m.kind = "function" /\ m.expectation.name \in
                {"array.deepEquals", "array.startsWith", "array.endsWith", "array.contains"} ->
            Arrays \cup NestedArrays
            \cup {Undefined, Null, Num(1), Str(<<"a">>), Obj(NoProps, NoProps)}
      [] m.kind = "function" /\ m.expectation.name \in {"map.deepEquals", "map.contains"} ->
            Maps \cup {Undefined, Null, Num(1), Arr(<<>>), SetV({})}
      [] m.kind = "function" /\ m.expectation.name \in {"set.deepEquals", "set.contains"} ->
            Sets \cup {Undefined, Null, Num(1), Arr(<<>>), MapV(NoProps)}
      [] OTHER -> Primitives \cup {Arr(<<>>), Arr(<<Num(1)>>), Obj(NoProps, NoProps)}

(***************************************************************************)
(* The state machine: a caller builds a matcher, may combine it with or    *)
(* and and, and tests values with it, any number of times.  The builders   *)
(* read nothing of the state, so it is enough to call them at the start.   *)
(***************************************************************************)
NoArgs == [n |-> 0, a |-> <<>>]

Init ==
    /\ op = "init"
    /\ args = NoArgs
    /\ matcher = NoMatcher
    /\ actual = Undefined
    /\ result = Undefined
    /\ calls = <<>>
    /\ lastIndex = 0

\* a builder call that returned built (a matcher) or threw
Built(name, n, a, built) ==
    /\ op' = name
    /\ args' = [n |-> n, a |-> a]
    /\ matcher' = IF built = Throw THEN NoMatcher ELSE built
    /\ result' = built
    /\ actual' = Undefined
    /\ calls' = <<>>
    /\ lastIndex' = 0

CreateMatcher ==
    /\ op = "init"
    /\ \E n \in 0..3, expectation \in Expectations \cup ObjectExpectations, message \in Messages :
           /\ n = 0 => expectation = Undefined
           /\ n < 2 => message = Undefined
           /\ expectation \in ObjectExpectations => n = 1
           /\ Built("createMatcher", n, <<expectation, message>>,
                    createMatcher(expectation, message, n))

Singleton ==
    /\ op = "init"
    /\ \E m \in {createMatcher_any, createMatcher_defined, createMatcher_truthy,
                 createMatcher_falsy} :
           Built("singleton", 0, <<>>, m)

Same ==
    /\ op = "init"
    /\ \E expectation \in Primitives :
           Built("same", 1, <<expectation>>, createMatcher_same(expectation))

In ==
    /\ op = "init"
    /\ \E a \in Arrays \cup NonArrays :
           Built("in", 1, <<a>>, createMatcher_in(a))

TypeOf ==
    /\ op = "init"
    /\ \E type \in {Str(<<tag>>) : tag \in TypeTags} \cup {Undefined, Null, Num(1), Arr(<<>>)} :
           Built("typeOf", 1, <<type>>, createMatcher_typeOf(type))

Has ==
    /\ op = "init"
    /\ \E n \in 1..2, property \in {Str(<<"x">>), Str(<<"length">>), Num(1), Undefined},
          value \in {Undefined, Num(1)} :
           /\ n = 1 => value = Undefined
           /\ Built("has", n, <<property, value>>, createMatcher_has(property, value, n))

HasOwn ==
    /\ op = "init"
    /\ \E n \in 1..2, property \in {Str(<<"x">>), Str(<<"length">>), Num(1), Undefined},
          value \in {Undefined, Num(1)} :
           /\ n = 1 => value = Undefined
           /\ Built("hasOwn", n, <<property, value>>, createMatcher_hasOwn(property, value, n))

\* what every and some are given: a matcher, or something that is none
PredicateArguments ==
    Predicates \cup {Undefined, Null, Num(1), Closure("plainFunction", NoCapture),
                     Obj(NoProps, NoProps)}

Every ==
    /\ op = "init"
    /\ \E n \in 0..1, predicate \in PredicateArguments :
           /\ n = 0 => predicate = Undefined
           /\ Built("every", n, <<predicate>>, createMatcher_every(predicate))

Some ==
    /\ op = "init"
    /\ \E n \in 0..1, predicate \in PredicateArguments :
           /\ n = 0 => predicate = Undefined
           /\ Built("some", n, <<predicate>>, createMatcher_some(predicate))

ArrayDeepEquals ==
    /\ op = "init"
    /\ \E expectation \in Arrays \cup NonArrays \cup {Arr(<<Num(1), Arr(<<Num(2)>>)>>)} :
           Built("array.deepEquals", 1, <<expectation>>,
                 createMatcher_array_deepEquals(expectation))

ArrayStartsWith ==
    /\ op = "init"
    /\ \E expectation \in Arrays \cup NonArrays :
           Built("array.startsWith", 1, <<expectation>>,
                 createMatcher_array_startsWith(expectation))

ArrayEndsWith ==
    /\ op = "init"
    /\ \E expectation \in Arrays \cup NonArrays :
           Built("array.endsWith", 1, <<expectation>>,
                 createMatcher_array_endsWith(expectation))

ArrayContains ==
    /\ op = "init"
    /\ \E expectation \in Arrays \cup NonArrays :
           Built("array.contains", 1, <<expectation>>,
                 createMatcher_array_contains(expectation))

MapDeepEquals ==
    /\ op = "init"
    /\ \E expectation \in Maps \cup {Undefined, SetV({}), Arr(<<>>)} :
           Built("map.deepEquals", 1, <<expectation>>,
                 createMatcher_map_deepEquals(expectation))

MapContains ==
    /\ op = "init"
    /\ \E expectation \in Maps \cup {Undefined, SetV({}), Arr(<<>>)} :
           Built("map.contains", 1, <<expectation>>,
                 createMatcher_map_contains(expectation))

SetDeepEquals ==
    /\ op = "init"
    /\ \E expectation \in Sets \cup {Undefined, MapV(NoProps), Arr(<<>>)} :
           Built("set.deepEquals", 1, <<expectation>>,
                 createMatcher_set_deepEquals(expectation))

SetContains ==
    /\ op = "init"
    /\ \E expectation \in Sets \cup {Undefined, MapV(NoProps), Arr(<<>>)} :
           Built("set.contains", 1, <<expectation>>,
                 createMatcher_set_contains(expectation))

\* the matchers the model combines further, before it tests with them: built
\* of Operands, not too deep
Combinable(m) ==
    /\ op # "test"
    /\ m # NoMatcher
    /\ LeavesOf(m) \subseteq Operands \cup {createMatcher(Num(0), Undefined, 1)}
    /\ Depth(m) < MaxDepth

\* what or and and are given: a matcher, or a value to make one of
OperandArguments == Operands \cup {Undefined, Num(0)}

Or ==
    /\ Combinable(matcher)
    /\ \E n \in 0..1, valueOrMatcher \in OperandArguments :
        /\ n = 0 <=> valueOrMatcher = Undefined
        /\ Built("or", n, <<matcher, valueOrMatcher>>, matcher_or(matcher, valueOrMatcher, n))

And ==
    /\ Combinable(matcher)
    /\ \E n \in 0..1, valueOrMatcher \in OperandArguments :
        /\ n = 0 <=> valueOrMatcher = Undefined
        /\ Built("and", n, <<matcher, valueOrMatcher>>, matcher_and(matcher, valueOrMatcher, n))

DoTest ==
    /\ matcher # NoMatcher
    /\ \E a \in ActualsFor(matcher) :
        LET out == TestStep(matcher, a, lastIndex)
        IN  /\ op' = "test"
            /\ actual' = a
            /\ result' = out.v
            /\ calls' = out.calls
            /\ lastIndex' = out.li
            /\ UNCHANGED <<args, matcher>>

Next ==
    \/ CreateMatcher
    \/ Singleton
    \/ Same
    \/ In
    \/ TypeOf
    \/ Has
    \/ HasOwn
    \/ Every
    \/ Some
    \/ ArrayDeepEquals
    \/ ArrayStartsWith
    \/ ArrayEndsWith
    \/ ArrayContains
    \/ MapDeepEquals
    \/ MapContains
    \/ SetDeepEquals
    \/ SetContains
    \/ Or
    \/ And
    \/ DoTest

Spec == Init /\ [][Next]_vars

(***************************************************************************)
(* Properties.                                                             *)
(***************************************************************************)
Tested == op = "test"

\* the closure a builder handed to createMatcher, by name
TestedClosure(name) ==
    Tested /\ matcher.kind = "function" /\ matcher.expectation.name = name

\* a || b and a && b on outcomes: an error in a is the outcome
JsOr(a, b) == IF a = Throw THEN Throw ELSE IF Truthy(a) THEN a ELSE b

JsAnd(a, b) == IF a = Throw THEN Throw ELSE IF Truthy(a) THEN b ELSE a

\* the left operand decides the outcome of m
LeftDecides(m, a) ==
    LET l == Test(m.m1, a)
    IN  l = Throw \/ (IF m.kind = "or" THEN Truthy(l) ELSE ~Truthy(l))

\* m with its operands regrouped: (a.or(b)).or(c) as a.or(b.or(c))
Regrouped(m) ==
    [m EXCEPT !.m1 = m.m1.m1, !.m2 = [m.m1 EXCEPT !.m1 = m.m1.m2, !.m2 = m.m2]]

\* C1: m1.or(m2).test(x) is m1.test(x) || m2.test(x) and m1.and(m2).test(x) is
\* m1.test(x) && m2.test(x); the left operand is tested first and the right
\* one is not tested when the left decides; chained or (and) gives the same
\* result however it is grouped.
C1_CombinatorLaws ==
    (Tested /\ matcher.kind \in {"or", "and"}) =>
        LET l == Run(matcher.m1, actual)
            r == Run(matcher.m2, actual)
        IN  /\ result = IF matcher.kind = "or" THEN JsOr(l.v, r.v) ELSE JsAnd(l.v, r.v)
            /\ calls = IF LeftDecides(matcher, actual) THEN l.calls
                       ELSE l.calls \o r.calls
            /\ matcher.m1.kind = matcher.kind =>
                    result = Test(Regrouped(matcher), actual)

\* an or whose left operand is truthy and whose right operand would throw
C1_Witness ==
    /\ Tested
    /\ matcher.kind = "or"
    /\ matcher.m1.kind = "or"
    /\ Truthy(Test(matcher.m1, actual))
    /\ Test(matcher.m2, actual) = Throw
    /\ result = Test(matcher.m1, actual)

\* key k of expectation e matches actual a
RECURSIVE KeyMatches(_, _, _)
KeyMatches(a, e, k) ==
    LET exp == e.own[k]
        act == GetProp(a, k)
    IN  IF isMatcher(exp) THEN Truthy(Test(exp, act))
        ELSE IF exp.t = "object"
        THEN ~IsNullish(act) /\ \A j \in DOMAIN exp.own : KeyMatches(act, exp, j)
        ELSE deepEqual(act, exp)

\* object a with one more property
WithProperty(a, k, v) ==
    [a EXCEPT !.own = [j \in DOMAIN a.own \cup {k} |-> IF j = k THEN v ELSE a.own[j]]]

\* C2: for a plain object expectation E, createMatcher(E).test(actual) is false
\* for a null or undefined actual, and otherwise true exactly when every own
\* key of E matches (by the matcher, the nested object or deepEqual it
\* holds); a key of actual that E does not have changes nothing.
C2_SubsetMatch ==
    (Tested /\ matcher.kind = "object") =>
        LET E == matcher.expectation
        IN  /\ IsNullish(actual) => result = Bool(FALSE)
            /\ ~IsNullish(actual) =>
                    ((result = Bool(TRUE)) <=>
                        \A k \in DOMAIN E.own : KeyMatches(actual, E, k))
            /\ actual.t = "object" =>
                    \A k \in {"x", "y"} \ DOMAIN E.own :
                        \A v \in {Undefined, Num(1)} :
                            Test(matcher, WithProperty(actual, k, v)) = result

\* an actual with a key the expectation lacks, matched through a nested object
C2_Witness ==
    /\ Tested
    /\ matcher.kind = "object"
    /\ actual.t = "object"
    /\ DOMAIN actual.own \ DOMAIN matcher.expectation.own # {}
    /\ \E k \in DOMAIN matcher.expectation.own : matcher.expectation.own[k].t = "object"
    /\ result = Bool(TRUE)

\* C3: test(null) and test(undefined) never throw, and the array, map and set
\* matchers the claim names (array.deepEquals, array.endsWith, map.deepEquals,
\* set.deepEquals) answer false there.
C3_NullActualIsFalse ==
    (Tested /\ IsNullish(actual)) =>
        /\ result # Throw
        /\ (matcher.kind = "function"
            /\ matcher.expectation.name \in
                {"array.deepEquals", "array.endsWith", "map.deepEquals", "set.deepEquals"})
                => result = Bool(FALSE)

\* C4: testing the same actual again with the same matcher gives the same
\* result and leaves what the matcher captured as it was.
C4_TestIsIdempotent ==
    [][(Tested /\ op' = "test" /\ matcher' = matcher /\ actual' = actual)
            => (result' = result /\ lastIndex' = lastIndex)]_vars

\* has(p), given the property alone, tested on an object whose own p is undefined
HasOnUndefinedValue ==
    /\ TestedClosure("has")
    /\ matcher.expectation.c.onlyProperty
    /\ actual.t = "object"
    /\ matcher.expectation.c.property.s[1] \in DOMAIN actual.own
    /\ actual.own[matcher.expectation.c.property.s[1]] = Undefined

\* C5 as claimed: has("x").test({x: undefined}) is false.
C5_HasUndefinedValueIsFalse == HasOnUndefinedValue => result = Bool(FALSE)

\* C5 as amended: has("x").test({x: undefined}) is true: on an object the
\* property only has to be present.
C5_HasUndefinedValueIsTrue == HasOnUndefinedValue => result = Bool(TRUE)

C5_Witness == HasOnUndefinedValue /\ actual.proto = NoProps /\ DOMAIN actual.own = {"x"}

\* the last call was a builder call with arguments that are not valid
InvalidArguments ==
    \/ op = "createMatcher"
        /\ (args.n > 2 \/ (args.a[2] # Undefined /\ args.a[2].t # "string"))
    \/ op = "in" /\ typeOf(args.a[1]) # "array"
    \/ op = "typeOf" /\ typeOf(args.a[1]) # "string"
    \/ op \in {"every", "some"} /\ ~isMatcher(args.a[1])
    \/ op \in {"or", "and"} /\ args.n = 0

\* C6: createMatcher with more than two arguments or a message that is no
\* string, in with no array, typeOf with no string, every and some with no
\* matcher, or and and with no argument: each throws at the call and returns
\* no matcher.
C6_InvalidArgumentsThrow == InvalidArguments => (result = Throw /\ matcher = NoMatcher)

\* createMatcher with three arguments, the first two of them valid
C6_Witness ==
    /\ op = "createMatcher"
    /\ args.n = 3
    /\ args.a[2].t = "string"
    /\ result = Throw

\* C7: the array builders throw when their argument is no array.
C7_ArrayBuildersRejectNonArrays ==
    (op \in {"array.deepEquals", "array.startsWith", "array.endsWith", "array.contains"}
     /\ typeOf(args.a[1]) # "array")
        => result = Throw

\* C8: array.endsWith(suffix) is false on an array shorter than suffix, and on
\* a longer one true exactly when the last elements are === to suffix's.
C8_EndsWith ==
    (TestedClosure("array.endsWith")
     /\ typeOf(matcher.expectation.c.expectation) = "array"
     /\ typeOf(actual) = "array") =>
        LET suffix == matcher.expectation.c.expectation.es
            offset == Len(actual.es) - Len(suffix)
        IN  IF offset < 0 THEN result = Bool(FALSE)
            ELSE result = Bool(\A i \in 1..Len(suffix) :
                                StrictEq(actual.es[offset + i], suffix[i]))

\* two maps have the same keys with === values; two sets the same members
SameMap(a, b) ==
    DOMAIN a.f = DOMAIN b.f /\ \A k \in DOMAIN a.f : StrictEq(a.f[k], b.f[k])

SameSet(a, b) == a.S = b.S

\* C9: on maps, map.deepEquals(expected).test(actual) is true exactly when
\* both have the same keys with === values, and swapping actual and expected
\* gives the same result; on sets, set.deepEquals is true exactly when both
\* have the same members, and likewise swapped.
C9_MapSetDeepEquals ==
    /\ (TestedClosure("map.deepEquals")
        /\ typeOf(matcher.expectation.c.expectation) = "map"
        /\ typeOf(actual) = "map") =>
            /\ result = Bool(SameMap(actual, matcher.expectation.c.expectation))
            /\ result = Test(createMatcher_map_deepEquals(actual),
                             matcher.expectation.c.expectation)
    /\ (TestedClosure("set.deepEquals")
        /\ typeOf(matcher.expectation.c.expectation) = "set"
        /\ typeOf(actual) = "set") =>
            /\ result = Bool(SameSet(actual, matcher.expectation.c.expectation))
            /\ result = Test(createMatcher_set_deepEquals(actual),
                             matcher.expectation.c.expectation)

\* an actual map of the expected size that maps a key to another value
C9_Witness ==
    /\ TestedClosure("map.deepEquals")
    /\ typeOf(matcher.expectation.c.expectation) = "map"
    /\ typeOf(actual) = "map"
    /\ DOMAIN actual.f = DOMAIN matcher.expectation.c.expectation.f
    /\ DOMAIN actual.f # {}
    /\ result = Bool(FALSE)

\* the values every and some quantify over: the values at an object's own
\* keys, the elements of an iterable
Quantified(a) ==
    IF typeOf(a) = "object" THEN {a.own[k] : k \in DOMAIN a.own}
    ELSE {e.element : e \in ForEachEntries(a)}

\* C10: every(p) is true exactly when actual is an object or an iterable and
\* p.test holds for each of its values; some(p) exactly when it holds for at
\* least one; both are false on anything else.
C10_Quantifiers ==
    /\ TestedClosure("every") =>
            result = Bool((typeOf(actual) = "object" \/ isIterable(actual))
                          /\ \A e \in Quantified(actual) :
                                Truthy(Test(matcher.expectation.c.predicate, e)))
    /\ TestedClosure("some") =>
            result = Bool((typeOf(actual) = "object" \/ isIterable(actual))
                          /\ \E e \in Quantified(actual) :
                                Truthy(Test(matcher.expectation.c.predicate, e)))

====
